---- MODULE Spec2Model ----
(***************************************************************************)
(* Model of the arq-langchain-fastapi gateway.                             *)
(*                                                                         *)
(* app/main.py   : the /chat handler enqueues one arq job per request and  *)
(*                 polls its result for at most 30 s.                      *)
(* app/worker.py : one arq worker (WorkerSettings) running                 *)
(*                 process_langchain_request in at most max_jobs           *)
(*                 concurrent tasks.                                       *)
(*                                                                         *)
(* The queue, the job records and the results live in Redis and are        *)
(* driven by the arq library; its steps are modelled here as the actions   *)
(* the calls and settings of the two files trigger: enqueue_job,           *)
(* Job.result, Worker.start_jobs / run_job / finish_job, and the worker's  *)
(* signal handling.                                                        *)
(*                                                                         *)
(* Time advances in ticks of TickSeconds seconds: every wait that has a    *)
(* timeout carries the seconds it has lasted, and Tick ages all of them    *)
(* together.                                                               *)
(***************************************************************************)
EXTENDS Integers, Sequences, FiniteSets, TLC

(* ------------------------------ bounds -------------------------------- *)
MaxRequests == 2

(* the worker concurrency the environment configures (default 10) *)
API_CONCURRENCY_LIMIT == 1

(* the largest --requests and --concurrency given to the load test *)
MaxTotalRequests == 4
MaxConcurrency == 2

(* ------------------------- program constants -------------------------- *)
job_timeout == 60
max_tries == 3
result_timeout == 30

(* the length of a tick of the clock, in seconds: a third of job_timeout *)
TickSeconds == job_timeout \div 3

Requests == 1..MaxRequests
JobIds == 1..MaxRequests

(* what llm.ainvoke(...).content can be, and the messages of the
   exceptions it can raise *)
ExecOutputs == {"", "world"}
ExecErrors == {"", "boom"}

VARIABLES
    req,          \* per request: the position of its chat() call and its response
    nextJobId,    \* number of job ids handed out by enqueue_job so far
    jobArgs,      \* arq:job:<id>    the messages a job was enqueued with (0: no such key)
    queue,        \* arq:queue       job ids in score order
    inProgress,   \* arq:in-progress:<id> keys
    retry,        \* arq:retry:<id>  job_try counters (0: no such key)
    result,       \* arq:result:<id> stored results
    wstate,       \* the worker process: "down", "up" or "closing"
    startups,     \* runs of the startup hook since the worker process was last started
    shutdowns,    \* runs of the shutdown hook since the worker process was last started
    tasks,        \* worker.tasks: per job id "none", "exec", "cancelled", "exceeded" or "expired"
    taskAge,      \* seconds the running attempt of a job has lasted
    created,      \* history: the messages each job was created with (0: not created)
    execOut,      \* history: the value the function returned for the job
    ahead,        \* history: per job, the jobs that were waiting when it was last put back
    limit,        \* settings.API_CONCURRENCY_LIMIT as read from the environment
    stats,        \* the monitor: what get_queue_stats returned last
    load          \* the load test client: the locals of run_load_test and its requests

vars == <<req, nextJobId, jobArgs, queue, inProgress, retry, result,
          wstate, startups, shutdowns, tasks, taskAge,
          created, execOut, ahead, limit, stats, load>>

redisVars == <<jobArgs, queue, inProgress, retry, result>>
workerVars == <<wstate, startups, shutdowns, tasks, taskAge>>
historyVars == <<created, execOut, ahead>>

(* max_jobs = settings.API_CONCURRENCY_LIMIT *)
max_jobs == limit

(* ------------------------------ values -------------------------------- *)
NoResult == [success |-> FALSE, type |-> "none", msg |-> ""]
NoResponse == [status |-> 0, key |-> "", value |-> ""]

(* the monitor has not printed a line *)
NoStats == [enqueued |-> -2, processing |-> -2, completed |-> -2, failed |-> -2]

(* the request ids run_load_test hands to send_request: i + 1 *)
RequestIds == 1..MaxTotalRequests

(* the load test client has not been started *)
NoLoad == [total_requests |-> 0, concurrency |-> 1, pc |-> "idle", i |-> 0,
           tasks |-> <<>>, sent |-> 0,
           state |-> [id \in RequestIds |-> "none"]]

(* Python's None as a result value *)
NoOutput == "<none>"

Range(s) == {s[i] : i \in 1..Len(s)}

(* request.model_dump().get('messages'): each request carries its own messages *)
messages(r) == r

(* str(e) of an exception *)
Str(e) == e.msg

(* raise HTTPException(status_code=500, detail=str(e)) as FastAPI renders it *)
HTTPException(e) == [status |-> 500, key |-> "detail", value |-> Str(e)]

(* return {"result": result} *)
ResultResponse(v) == [status |-> 200, key |-> "result", value |-> v]

TimeoutError == [success |-> FALSE, type |-> "TimeoutError", msg |-> ""]
ConnectionError == [success |-> FALSE, type |-> "ConnectionError", msg |-> "connection refused"]
ResultNotFound == [success |-> FALSE, type |-> "ResultNotFound", msg |-> "not waiting for job result"]
ProcessingTimedOut == [success |-> FALSE, type |-> "HTTPException", msg |-> "500: Processing timed out"]
MaxRetriesExceeded == [success |-> FALSE, type |-> "JobExecutionFailed", msg |-> "max 3 retries exceeded"]
ExecutorError(m) == [success |-> FALSE, type |-> "Exception", msg |-> m]
Success(v) == [success |-> TRUE, type |-> "str", msg |-> v]

(* job.result has nothing to return yet and keeps polling *)
Pending == [success |-> FALSE, type |-> "pending", msg |-> ""]


(* ---------------------------- job status ------------------------------ *)
(* The status of a job as the store shows it (arq Job.status order:
   result first, then the in-progress key, then the queue). *)
Status(j) ==
    IF j > nextJobId THEN "none"
    ELSE IF result[j] # NoResult
         THEN IF result[j].success THEN "succeeded"
              ELSE IF result[j].type = "TimeoutError" THEN "timed_out"
              ELSE "failed"
    ELSE IF j \in inProgress THEN "running"
    ELSE IF j \in Range(queue) THEN "queued"
    ELSE "not_found"

Terminal == {"succeeded", "failed", "timed_out"}

Remove(s, j) == SelectSeq(s, LAMBDA x : x # j)

(* the jobs of the queue no task has claimed *)
Waiting == {j \in Range(queue) : j \notin inProgress}

(* ------------------------------- Init --------------------------------- *)
Init ==
    /\ req = [r \in Requests |->
                [pc |-> "new", job |-> 0, delay |-> 0,
                 outcome |-> NoResult, resp |-> NoResponse]]
    /\ nextJobId = 0
    /\ jobArgs = [j \in JobIds |-> 0]
    /\ queue = <<>>
    /\ inProgress = {}
    /\ retry = [j \in JobIds |-> 0]
    /\ result = [j \in JobIds |-> NoResult]
    /\ wstate = "down"
    /\ startups = 0
    /\ shutdowns = 0
    /\ tasks = [j \in JobIds |-> "none"]
    /\ taskAge = [j \in JobIds |-> 0]
    /\ created = [j \in JobIds |-> 0]
    /\ execOut = [j \in JobIds |-> NoOutput]
    /\ ahead = [j \in JobIds |-> {}]
    /\ limit = API_CONCURRENCY_LIMIT
    /\ stats = NoStats
    /\ load = NoLoad

(* Requests are numbered in the order in which chat takes them up: r is
   the next request when every request before it has been taken up. *)
next_request(r) == \A q \in Requests : q < r => req[q].pc # "new"

(* ------------------------ app/main.py : chat -------------------------- *)
(* chat that enqueues a second job when the wait for the first timed out *)
chat_enqueue_retrying(r) ==
    /\ \/ req[r].pc = "new" /\ next_request(r)
       \/ req[r].pc = "done" /\ req[r].outcome = TimeoutError
    /\ nextJobId < MaxRequests
    /\ LET j == nextJobId + 1 IN
        /\ nextJobId' = j
        /\ jobArgs' = [jobArgs EXCEPT ![j] = messages(r)]
        /\ queue' = Append(queue, j)
        /\ created' = [created EXCEPT ![j] = messages(r)]
        /\ req' = [req EXCEPT ![r].pc = "waiting", ![r].job = j, ![r].delay = 0]
    /\ UNCHANGED <<inProgress, retry, result, workerVars, execOut, ahead>>
    /\ UNCHANGED <<limit, stats, load>>

(* job = await app.state.redis.enqueue_job('process_langchain_request',
   messages=...): a fresh job id, the job key, and the id added to the
   queue with the current time as score. *)
chat_enqueue(r) ==
    /\ req[r].pc = "new"
    /\ next_request(r)
    /\ nextJobId < MaxRequests
    /\ LET j == nextJobId + 1 IN
        /\ nextJobId' = j
        /\ jobArgs' = [jobArgs EXCEPT ![j] = messages(r)]
        /\ queue' = Append(queue, j)
        /\ created' = [created EXCEPT ![j] = messages(r)]
        /\ req' = [req EXCEPT ![r].pc = "waiting", ![r].job = j, ![r].delay = 0]
    /\ UNCHANGED <<inProgress, retry, result, workerVars, execOut, ahead>>
    /\ UNCHANGED <<limit, stats, load>>

(* enqueue_job raises because Redis cannot be reached; the except clause
   turns the exception into HTTPException(500, detail=str(e)). *)
chat_store_unavailable(r) ==
    /\ req[r].pc = "new"
    /\ next_request(r)
    /\ req' = [req EXCEPT ![r].pc = "done",
                          ![r].outcome = ConnectionError,
                          ![r].resp = HTTPException(ConnectionError)]
    /\ UNCHANGED <<nextJobId, redisVars, workerVars, historyVars>>
    /\ UNCHANGED <<limit, stats, load>>

(* job.result() called without a timeout *)
job_result_no_timeout(j, delay) ==
    IF result[j] # NoResult THEN result[j]
    ELSE IF j \notin Range(queue) THEN ResultNotFound
    ELSE Pending

(* One iteration of the polling loop of job.result(timeout=30): the stored
   result if there is one (returned, or raised when it is an exception),
   ResultNotFound when the job is neither stored nor queued, TimeoutError
   once the wait exceeds the timeout. *)
job_result(j, delay) ==
    IF result[j] # NoResult THEN result[j]
    ELSE IF j \notin Range(queue) THEN ResultNotFound
    ELSE IF delay > result_timeout THEN TimeoutError
    ELSE Pending

(* chat that tests "if not result" instead of "if result is None" *)
chat_response_falsy(o) ==
    IF o.success
    THEN IF o.msg = NoOutput \/ o.msg = ""
         THEN HTTPException(ProcessingTimedOut)
         ELSE ResultResponse(o.msg)
    ELSE HTTPException(o)

(* chat without the except clause: the exception leaves the handler and
   the server answers with its plain-text 500 *)
chat_response_unmapped(o) ==
    IF o.success
    THEN IF o.msg = NoOutput
         THEN HTTPException(ProcessingTimedOut)
         ELSE ResultResponse(o.msg)
    ELSE [status |-> 500, key |-> "", value |-> "Internal Server Error"]

(* The response chat gives for what job.result produced. *)
chat_response(o) ==
    IF o.success
    THEN IF o.msg = NoOutput
         THEN HTTPException(ProcessingTimedOut)
         ELSE ResultResponse(o.msg)
    ELSE HTTPException(o)

(* chat that aborts the job when its wait times out *)
chat_result_cancelling(r) ==
    /\ req[r].pc = "waiting"
    /\ LET o == job_result(req[r].job, req[r].delay) IN
        /\ o # Pending
        /\ req' = [req EXCEPT ![r].pc = "done",
                              ![r].delay = 0,
                              ![r].outcome = o,
                              ![r].resp = chat_response(o)]
        /\ queue' = IF o = TimeoutError THEN Remove(queue, req[r].job) ELSE queue
    /\ UNCHANGED <<nextJobId, jobArgs, inProgress, retry, result, workerVars, historyVars>>
    /\ UNCHANGED <<limit, stats, load>>

(* a handler that answers the requests in the order in which they came *)
chat_result_in_turn(r) ==
    /\ req[r].pc = "waiting"
    /\ \A q \in Requests : q < r => req[q].pc # "waiting"
    /\ LET o == job_result(req[r].job, req[r].delay) IN
        /\ o # Pending
        /\ req' = [req EXCEPT ![r].pc = "done",
                              ![r].delay = 0,
                              ![r].outcome = o,
                              ![r].resp = chat_response(o)]
    /\ UNCHANGED <<nextJobId, redisVars, workerVars, historyVars>>
    /\ UNCHANGED <<limit, stats, load>>

(* result = await job.result(timeout=30) and the rest of the handler. *)
chat_result(r) ==
    /\ req[r].pc = "waiting"
    /\ LET o == job_result(req[r].job, req[r].delay) IN
        /\ o # Pending
        /\ req' = [req EXCEPT ![r].pc = "done",
                              ![r].delay = 0,
                              ![r].outcome = o,
                              ![r].resp = chat_response(o)]
    /\ UNCHANGED <<nextJobId, redisVars, workerVars, historyVars>>
    /\ UNCHANGED <<limit, stats, load>>


(* ------------------ app/worker.py : the arq worker -------------------- *)
(* A worker process is started (the first one, or a new one after the
   previous one has exited): on_startup = startup runs, then the poll loop
   begins. *)
startup ==
    /\ wstate = "down"
    /\ wstate' = "up"
    /\ startups' = 1
    /\ shutdowns' = 0
    /\ UNCHANGED <<req, nextJobId, redisVars, tasks, taskAge, historyVars>>
    /\ UNCHANGED <<limit, stats, load>>

(* number of tasks the worker is running (job_counter) *)
job_counter == Cardinality({j \in JobIds : tasks[j] # "none"})

(* a worker that starts jobs without looking at max_jobs *)
slot_free_unchecked == TRUE

(* max_jobs = settings.API_CONCURRENCY_LIMIT: a job is started only while
   fewer than max_jobs tasks run *)
slot_free == job_counter < max_jobs

(* the first job id of the queue, whether or not a task has claimed it *)
first_queued == queue[1]

(* the first job id of the queue, in score order, that no task has claimed *)
first_waiting ==
    LET i == CHOOSE i \in 1..Len(queue) :
                 /\ queue[i] \notin inProgress
                 /\ \A k \in 1..(i - 1) : queue[k] \in inProgress
    IN queue[i]

(* run_job without the max_tries check *)
run_job_phase_unlimited(j, job_try) ==
    IF jobArgs[j] = 0 THEN "expired"
    ELSE "exec"

(* what run_job does with a job it has just claimed: job_try is the
   incremented retry counter *)
run_job_phase(j, job_try) ==
    IF jobArgs[j] = 0 THEN "expired"
    ELSE IF job_try > max_tries THEN "exceeded"
    ELSE "exec"

(* start_jobs and the first part of run_job: take a slot (max_jobs), claim
   the job with its in-progress key, count the try, and call
   process_langchain_request unless the tries are used up. *)
start_job(j) ==
    /\ wstate = "up"
    /\ Waiting # {}
    /\ j = first_waiting
    /\ slot_free
    /\ inProgress' = inProgress \cup {j}
    /\ retry' = [retry EXCEPT ![j] = @ + 1]
    /\ LET phase == run_job_phase(j, retry[j] + 1) IN
        /\ tasks' = [tasks EXCEPT ![j] = phase]
        /\ taskAge' = [taskAge EXCEPT ![j] = 0]
    /\ ahead' = [k \in JobIds |-> IF k = j THEN ahead[k] ELSE ahead[k] \ {j}]
    /\ UNCHANGED <<req, nextJobId, jobArgs, queue, result,
                   wstate, startups, shutdowns, created, execOut>>
    /\ UNCHANGED <<limit, stats, load>>

(* finish_job that forgets to remove a finished job from the queue *)
finish_job_keeps_queued(j, finish, result_data) ==
    /\ inProgress' = inProgress \ {j}
    /\ IF finish
       THEN /\ result' = [result EXCEPT ![j] = result_data]
            /\ retry' = [retry EXCEPT ![j] = 0]
            /\ jobArgs' = [jobArgs EXCEPT ![j] = 0]
            /\ UNCHANGED queue
       ELSE UNCHANGED <<result, retry, jobArgs, queue>>

(* finish_job: drop the in-progress key; when the job is finished store
   the result, delete the retry counter and the job key and remove the id
   from the queue; otherwise the job stays in the queue with its score. *)
finish_job(j, finish, result_data) ==
    /\ inProgress' = inProgress \ {j}
    /\ IF finish
       THEN /\ result' = [result EXCEPT ![j] = result_data]
            /\ retry' = [retry EXCEPT ![j] = 0]
            /\ jobArgs' = [jobArgs EXCEPT ![j] = 0]
            /\ queue' = Remove(queue, j)
       ELSE UNCHANGED <<result, retry, jobArgs, queue>>

(* the task of job j ends and gives its slot back *)
end_task(j) ==
    /\ tasks' = [tasks EXCEPT ![j] = "none"]
    /\ taskAge' = [taskAge EXCEPT ![j] = 0]

(* return response.content *)
process_langchain_request_return(j, out) ==
    /\ tasks[j] = "exec"
    /\ taskAge[j] <= job_timeout
    /\ finish_job(j, TRUE, Success(out))
    /\ end_task(j)
    /\ execOut' = [execOut EXCEPT ![j] = out]
    /\ UNCHANGED <<req, nextJobId, wstate, startups, shutdowns, created, ahead>>
    /\ UNCHANGED <<limit, stats, load>>

(* an exception path that stores the failure but keeps the slot *)
process_langchain_request_raise_holding(j, m) ==
    /\ tasks[j] = "exec"
    /\ taskAge[j] <= job_timeout
    /\ finish_job(j, TRUE, ExecutorError(m))
    /\ UNCHANGED <<tasks, taskAge>>
    /\ UNCHANGED <<req, nextJobId, wstate, startups, shutdowns,
                   historyVars>>
    /\ UNCHANGED <<limit, stats, load>>

(* except Exception as e: ... raise -- the exception reaches run_job, which
   retries only Retry / cancellation and otherwise stores the exception as
   the job's result. *)
process_langchain_request_raise(j, m) ==
    /\ tasks[j] = "exec"
    /\ taskAge[j] <= job_timeout
    /\ finish_job(j, TRUE, ExecutorError(m))
    /\ end_task(j)
    /\ UNCHANGED <<req, nextJobId, wstate, startups, shutdowns,
                   historyVars>>
    /\ UNCHANGED <<limit, stats, load>>

(* a job timeout shorter than the wait of chat *)
job_timed_out_early(j) ==
    /\ tasks[j] = "exec"
    /\ taskAge[j] >= TickSeconds
    /\ finish_job(j, TRUE, TimeoutError)
    /\ end_task(j)
    /\ UNCHANGED <<req, nextJobId, wstate, startups, shutdowns,
                   historyVars>>
    /\ UNCHANGED <<limit, stats, load>>

(* job_timeout = 60: the attempt is cancelled by the timeout and
   TimeoutError is stored as the job's result. *)
job_timed_out(j) ==
    /\ tasks[j] = "exec"
    /\ taskAge[j] >= job_timeout
    /\ finish_job(j, TRUE, TimeoutError)
    /\ end_task(j)
    /\ UNCHANGED <<req, nextJobId, wstate, startups, shutdowns,
                   historyVars>>
    /\ UNCHANGED <<limit, stats, load>>

(* max_tries = 3: a job picked up for a 4th try (or whose job key is gone)
   is failed without calling the function. *)
job_failed(j) ==
    /\ tasks[j] \in {"exceeded", "expired"}
    /\ finish_job(j, TRUE, IF tasks[j] = "exceeded" THEN MaxRetriesExceeded
                           ELSE [MaxRetriesExceeded EXCEPT !.msg = "job expired"])
    /\ end_task(j)
    /\ UNCHANGED <<req, nextJobId, wstate, startups, shutdowns,
                   historyVars>>
    /\ UNCHANGED <<limit, stats, load>>

(* The worker process receives SIGINT/SIGTERM: every running task is
   cancelled and the poll loop stops. *)
worker_signal ==
    /\ wstate = "up"
    /\ wstate' = "closing"
    /\ tasks' = [j \in JobIds |-> IF tasks[j] = "exec" THEN "cancelled" ELSE tasks[j]]
    /\ taskAge' = [j \in JobIds |-> 0]
    /\ UNCHANGED <<req, nextJobId, redisVars, startups, shutdowns, historyVars>>
    /\ UNCHANGED <<limit, stats, load>>

(* a cancelled attempt whose job is taken off the queue *)
job_cancelled_dropping(j) ==
    /\ tasks[j] = "cancelled"
    /\ inProgress' = inProgress \ {j}
    /\ queue' = Remove(queue, j)
    /\ UNCHANGED <<result, retry, jobArgs>>
    /\ end_task(j)
    /\ ahead' = [ahead EXCEPT ![j] = Waiting \ {j}]
    /\ UNCHANGED <<req, nextJobId, wstate, startups, shutdowns, created, execOut>>
    /\ UNCHANGED <<limit, stats, load>>

(* A cancelled attempt: run_job logs "cancelled, will be run again" and
   finish_job(finish=False) leaves the job in the queue. *)
job_cancelled(j) ==
    /\ tasks[j] = "cancelled"
    /\ finish_job(j, FALSE, NoResult)
    /\ end_task(j)
    /\ ahead' = [ahead EXCEPT ![j] = Waiting \ {j}]
    /\ UNCHANGED <<req, nextJobId, wstate, startups, shutdowns, created, execOut>>
    /\ UNCHANGED <<limit, stats, load>>

(* a close that runs on_shutdown without waiting for the tasks *)
shutdown_without_gather ==
    /\ wstate = "closing"
    /\ wstate' = "down"
    /\ shutdowns' = shutdowns + 1
    /\ UNCHANGED <<req, nextJobId, redisVars, startups,
                   tasks, taskAge, historyVars>>
    /\ UNCHANGED <<limit, stats, load>>

(* Worker.close: once every task has ended, on_shutdown = shutdown runs. *)
shutdown ==
    /\ wstate = "closing"
    /\ \A j \in JobIds : tasks[j] = "none"
    /\ wstate' = "down"
    /\ shutdowns' = shutdowns + 1
    /\ UNCHANGED <<req, nextJobId, redisVars, startups,
                   tasks, taskAge, historyVars>>
    /\ UNCHANGED <<limit, stats, load>>

(* ------------------------------ the clock ----------------------------- *)
(* Time passes for every wait that has a timeout: the delay of each
   job.result poll loop and the age of each running attempt.  The 0.5 s
   polls of job.result and the timer of the job timeout are shorter than a
   tick: a response that is due and a timeout that has expired happen
   before the next tick. *)
Tick ==
    /\ \/ \E r \in Requests : req[r].pc = "waiting"
       \/ \E j \in JobIds : tasks[j] = "exec"
    /\ \A r \in Requests :
          req[r].pc = "waiting" => job_result(req[r].job, req[r].delay) = Pending
    /\ \A j \in JobIds : tasks[j] = "exec" => taskAge[j] < job_timeout
    /\ req' = [r \in Requests |->
                 IF req[r].pc = "waiting" THEN [req[r] EXCEPT !.delay = @ + TickSeconds] ELSE req[r]]
    /\ taskAge' = [j \in JobIds |-> IF tasks[j] = "exec" THEN taskAge[j] + TickSeconds ELSE taskAge[j]]
    /\ UNCHANGED <<nextJobId, redisVars, wstate, startups, shutdowns,
                   tasks, historyVars>>
    /\ UNCHANGED <<limit, stats, load>>

Next ==
    \/ \E r \in Requests : chat_enqueue(r)
    \/ \E r \in Requests : chat_store_unavailable(r)
    \/ \E r \in Requests : chat_result(r)
    \/ startup
    \/ \E j \in JobIds : start_job(j)
    \/ \E j \in JobIds, out \in ExecOutputs : process_langchain_request_return(j, out)
    \/ \E j \in JobIds, m \in ExecErrors : process_langchain_request_raise(j, m)
    \/ \E j \in JobIds : job_timed_out(j)
    \/ \E j \in JobIds : job_failed(j)
    \/ worker_signal
    \/ \E j \in JobIds : job_cancelled(j)
    \/ shutdown
    \/ Tick

Spec == Init /\ [][Next]_vars

(* The service started with API_CONCURRENCY_LIMIT in the environment set
   one higher: the worker has a slot to spare for the requests of Spec. *)
InitWide ==
    /\ req = [r \in Requests |->
                [pc |-> "new", job |-> 0, delay |-> 0,
                 outcome |-> NoResult, resp |-> NoResponse]]
    /\ nextJobId = 0
    /\ jobArgs = [j \in JobIds |-> 0]
    /\ queue = <<>>
    /\ inProgress = {}
    /\ retry = [j \in JobIds |-> 0]
    /\ result = [j \in JobIds |-> NoResult]
    /\ wstate = "down"
    /\ startups = 0
    /\ shutdowns = 0
    /\ tasks = [j \in JobIds |-> "none"]
    /\ taskAge = [j \in JobIds |-> 0]
    /\ created = [j \in JobIds |-> 0]
    /\ execOut = [j \in JobIds |-> NoOutput]
    /\ ahead = [j \in JobIds |-> {}]
    /\ limit = API_CONCURRENCY_LIMIT + 1
    /\ stats = NoStats
    /\ load = NoLoad

WideSpec == InitWide /\ [][Next]_vars

(* The service with its scheduling.  The worker process is started when it
   is down and its event loop runs every step that is ready: picking up a
   job, failing a job, ending a cancelled attempt, closing.  The timer of
   job_timeout fires, the handlers of chat run, and time passes.  Nothing
   is assumed of the language model: a call may never return.  The
   operator sends the worker only finitely many signals. *)
Fairness ==
    /\ WF_vars(startup)
    /\ WF_vars(\E j \in JobIds : start_job(j))
    /\ WF_vars(\E j \in JobIds : job_timed_out(j))
    /\ WF_vars(\E j \in JobIds : job_failed(j))
    /\ WF_vars(\E j \in JobIds : job_cancelled(j))
    /\ WF_vars(shutdown)
    /\ WF_vars(\E r \in Requests : chat_result(r))
    /\ WF_vars(Tick)
    /\ <>[][~worker_signal]_vars

LiveSpec == Init /\ [][Next]_vars /\ Fairness

(* ----------------- tests/test_client.py : the load test --------------- *)
(* asyncio.run(run_load_test(args.concurrency, args.requests, args.url)):
   the loop is about to run with i = 0 and no tasks. *)
InitLoad ==
    /\ req = [r \in Requests |->
                [pc |-> "new", job |-> 0, delay |-> 0,
                 outcome |-> NoResult, resp |-> NoResponse]]
    /\ nextJobId = 0
    /\ jobArgs = [j \in JobIds |-> 0]
    /\ queue = <<>>
    /\ inProgress = {}
    /\ retry = [j \in JobIds |-> 0]
    /\ result = [j \in JobIds |-> NoResult]
    /\ wstate = "down"
    /\ startups = 0
    /\ shutdowns = 0
    /\ tasks = [j \in JobIds |-> "none"]
    /\ taskAge = [j \in JobIds |-> 0]
    /\ created = [j \in JobIds |-> 0]
    /\ execOut = [j \in JobIds |-> NoOutput]
    /\ ahead = [j \in JobIds |-> {}]
    /\ limit = API_CONCURRENCY_LIMIT
    /\ stats = NoStats
    /\ \E n \in 0..MaxTotalRequests, c \in 1..MaxConcurrency :
          load = [NoLoad EXCEPT !.total_requests = n, !.concurrency = c, !.pc = "loop"]

(* the rest of the service, which the load test does not touch *)
serviceVars == <<req, nextJobId, redisVars, workerVars, historyVars, limit, stats>>

(* the requests whose POST has been sent and not yet answered *)
InFlight == {id \in RequestIds : load.state[id] = "sent"}

(* One iteration of the for loop: the coroutine send_request(..., i + 1)
   is appended to tasks; when len(tasks) >= concurrency or this is the
   last i, asyncio.gather starts all of them, each sending its
   POST; otherwise the loop goes on to the next i. *)
run_load_test_iteration ==
    /\ load.pc = "loop"
    /\ load.i < load.total_requests
    /\ LET batch == Append(load.tasks, load.i + 1) IN
        IF Len(batch) >= load.concurrency \/ load.i = load.total_requests - 1
        THEN load' = [load EXCEPT
                        !.tasks = batch,
                        !.pc = "gather",
                        !.sent = @ + Len(batch),
                        !.state = [id \in RequestIds |->
                                     IF id \in Range(batch) THEN "sent" ELSE @[id]]]
        ELSE load' = [load EXCEPT !.tasks = batch, !.i = @ + 1]
    /\ UNCHANGED serviceVars

(* send_request: response.json() is read and returned *)
send_request_return(id) ==
    /\ load.state[id] = "sent"
    /\ load' = [load EXCEPT !.state[id] = "result"]
    /\ UNCHANGED serviceVars

(* a send_request that lets the exception out: gather raises it in
   run_load_test, which ends with the exception *)
send_request_raise(id) ==
    /\ load.state[id] = "sent"
    /\ load' = [load EXCEPT !.state[id] = "error", !.pc = "raised"]
    /\ UNCHANGED serviceVars

(* send_request: the POST or response.json() raises; except Exception
   returns {"error": str(e)} *)
send_request_except(id) ==
    /\ load.state[id] = "sent"
    /\ load' = [load EXCEPT !.state[id] = "error"]
    /\ UNCHANGED serviceVars

(* await asyncio.gather returns when every task of the batch has
   returned; tasks = [] and the loop goes on to the next i *)
gather_returns ==
    /\ load.pc = "gather"
    /\ \A id \in Range(load.tasks) : load.state[id] \in {"result", "error"}
    /\ load' = [load EXCEPT !.tasks = <<>>, !.i = @ + 1, !.pc = "loop"]
    /\ UNCHANGED serviceVars

(* the loop is over: the session is closed and "Load test completed" is
   logged *)
run_load_test_completed ==
    /\ load.pc = "loop"
    /\ load.i >= load.total_requests
    /\ load' = [load EXCEPT !.pc = "completed"]
    /\ UNCHANGED serviceVars

NextLoad ==
    \/ run_load_test_iteration
    \/ \E id \in RequestIds : send_request_return(id)
    \/ \E id \in RequestIds : send_request_except(id)
    \/ gather_returns
    \/ run_load_test_completed

(* The event loop runs every step of run_load_test that is ready, and
   every POST ends: with a response, or with an exception, at the latest
   the one of the client's total timeout. *)
LoadSpec == InitLoad /\ [][NextLoad]_vars /\ WF_vars(NextLoad)

(* ------------------------------ the monitor --------------------------- *)
(* ArqMonitor(queue_name="arq:queue") *)
queue_name == "arq:queue"

(* The keys of the Redis database, each a name prefix and a job id (0 for
   a key that belongs to no job).  The worker and the job handles keep the
   queue in one sorted set and everything else in string keys. *)
SortedSetKeys == IF queue = <<>> THEN {} ELSE {<<"arq:queue", 0>>}
StringKeys ==
    {<<"arq:job:", j>> : j \in {k \in JobIds : jobArgs[k] # 0}}
    \cup {<<"arq:in-progress:", j>> : j \in inProgress}
    \cup {<<"arq:retry:", j>> : j \in {k \in JobIds : retry[k] # 0}}
    \cup {<<"arq:result:", j>> : j \in {k \in JobIds : result[k] # NoResult}}

(* Redis answers a command on a key of another type with a WRONGTYPE
   error, which the client raises as ResponseError *)
WRONGTYPE == -1

(* LLEN key: the length of a list; 0 for a key that does not exist *)
llen(key) == IF key \in SortedSetKeys \cup StringKeys THEN WRONGTYPE ELSE 0

(* HLEN key: the number of fields of a hash; 0 for a key that does not exist *)
hlen(key) == IF key \in SortedSetKeys \cup StringKeys THEN WRONGTYPE ELSE 0

(* KEYS pattern, for a pattern "<prefix>*" *)
keys(prefix) == {key \in SortedSetKeys \cup StringKeys : key[1] = prefix}

(* ZCARD key: the size of a sorted set; 0 for a key that does not exist *)
zcard(key) ==
    IF key \in SortedSetKeys THEN Len(queue)
    ELSE IF key \in StringKeys THEN WRONGTYPE
    ELSE 0

(* the four reads of get_queue_stats *)
queue_stats ==
    [enqueued   |-> llen(<<queue_name, 0>>),
     processing |-> hlen(<<queue_name \o ":processing", 0>>),
     completed  |-> Cardinality(keys(queue_name \o ":result:")),
     failed     |-> zcard(<<queue_name \o ":failed", 0>>)]

(* the call raised instead of returning the four counts *)
Raised(s) == WRONGTYPE \in {s.enqueued, s.processing, s.failed}

(* what the caller of get_queue_stats gets: the counts, or the error of
   the first read that failed *)
StatsError == [enqueued |-> WRONGTYPE, processing |-> WRONGTYPE,
               completed |-> WRONGTYPE, failed |-> WRONGTYPE]

(* a monitor that takes the entries it counts off the queue *)
get_queue_stats_popping ==
    /\ stats' = IF Raised(queue_stats) THEN StatsError ELSE queue_stats
    /\ queue' = <<>>
    /\ UNCHANGED <<req, nextJobId, jobArgs, inProgress, retry, result,
                   workerVars, historyVars, limit, load>>

(* ArqMonitor.get_queue_stats, called by print_stats once per interval *)
get_queue_stats ==
    /\ stats' = IF Raised(queue_stats) THEN StatsError ELSE queue_stats
    /\ UNCHANGED <<req, nextJobId, redisVars, workerVars, historyVars, limit, load>>

(* the service with the monitor running beside it *)
NextMonitored ==
    \/ Next
    \/ get_queue_stats

MonitorSpec == Init /\ [][NextMonitored]_vars


(* ====================================================================== *)
(*                               Properties                               *)
(* ====================================================================== *)

Done(r) == req[r].pc = "done"
JobOf(r) == req[r].job
Running == {j \in JobIds : Status(j) = "running"}

(* ------------------------------- C1 ----------------------------------- *)
AllowedTransitions ==
    { <<"none", "queued">>, <<"queued", "running">>, <<"running", "succeeded">>,
      <<"running", "queued">>, <<"running", "failed">>, <<"running", "timed_out">> }

(* C1: in every step the status of every job either stays what it is or
   moves along queued -> running, running -> succeeded, running -> queued,
   running -> failed or running -> timed_out (a job appears as queued); in
   particular a terminal status never changes. *)
C1_StatusTransitions ==
    [][\A j \in JobIds :
          \/ Status(j)' = Status(j)
          \/ <<Status(j), Status(j)'>> \in AllowedTransitions]_vars

(* a job was retried by the worker until it was failed for good, next to
   another job that is terminal as well *)
C1_Witness ==
    \E j, k \in JobIds :
        /\ result[j] = MaxRetriesExceeded
        /\ k # j
        /\ Status(k) \in Terminal

(* ------------------------------- C2 ----------------------------------- *)
(* C2: a job is marked failed because process_langchain_request raised
   only on its 3rd try (max_tries), never on the 1st or 2nd. *)
C2_FailedOnlyAfterMaxTries ==
    [][\A j \in JobIds :
          (result[j] = NoResult /\ result'[j].type = "Exception")
              => retry[j] = max_tries]_vars

(* ------------------------------- C3 ----------------------------------- *)
(* C3: the step in which chat gives up waiting (TimeoutError of
   job.result while the job has no result) changes nothing of the job: the
   store, the queue and the worker's tasks stay as they are, and so does
   the job's status. *)
C3_CallerTimeoutLeavesJob ==
    [][\A r \in Requests :
          ( /\ req[r].pc = "waiting"
            /\ req'[r].pc = "done"
            /\ req'[r].outcome = TimeoutError
            /\ result[req[r].job] = NoResult )
          => /\ UNCHANGED <<redisVars, tasks, taskAge>>
             /\ Status(req[r].job)' = Status(req[r].job)
             /\ Status(req[r].job) \in {"queued", "running"}]_vars

(* a request was answered with the timeout and its job succeeded afterwards *)
C3_Witness ==
    \E r \in Requests :
        /\ Done(r)
        /\ req[r].outcome = TimeoutError
        /\ Status(JobOf(r)) = "succeeded"

(* ------------------------------- C4 ----------------------------------- *)
(* C4: a request for which job.result found a successful result is
   answered with {"result": v} where v is what process_langchain_request
   returned for the job created with this request's messages, and only
   such a request gets a success response. *)
C4_OwnResult ==
    \A r \in Requests :
        Done(r) =>
            /\ req[r].outcome.success =>
                  /\ JobOf(r) \in 1..nextJobId
                  /\ created[JobOf(r)] = messages(r)
                  /\ req[r].resp = ResultResponse(execOut[JobOf(r)])
            /\ req[r].resp.status = 200 => req[r].outcome.success

(* two requests were in flight together and got different results, one of
   them the empty string *)
C4_Witness ==
    \E r1, r2 \in Requests :
        /\ Done(r1) /\ Done(r2)
        /\ req[r1].resp = ResultResponse("")
        /\ req[r2].resp = ResultResponse("world")

(* ------------------------------- C5 ----------------------------------- *)
IsTimeout(r) == Done(r) /\ req[r].outcome.type = "TimeoutError"
IsExecutionFailed(r) ==
    Done(r) /\ req[r].outcome.type \in {"Exception", "JobExecutionFailed"}

(* C5: a request that ended in a timeout and a request whose job failed
   never get the same response. *)
C5_DistinctFailureResponses ==
    \A r1, r2 \in Requests :
        (IsTimeout(r1) /\ IsExecutionFailed(r2)) => req[r1].resp # req[r2].resp

(* ------------------------------- C6 ----------------------------------- *)
(* C6: no request is left waiting beyond the wait bound: a waiting request
   has waited less than one tick more than result_timeout, and once it has
   waited longer than result_timeout its response is due whatever the
   state of its job. *)
C6_ResponseWithinBound ==
    \A r \in Requests :
        req[r].pc = "waiting" =>
            /\ req[r].delay < result_timeout + TickSeconds
            /\ req[r].delay > result_timeout =>
                  job_result(JobOf(r), req[r].delay) # Pending

(* a request is answered with the timeout while its job, already retried,
   is still not finished *)
C6_Witness ==
    \E r \in Requests :
        /\ Done(r)
        /\ req[r].outcome = TimeoutError
        /\ req[r].resp = HTTPException(TimeoutError)
        /\ retry[JobOf(r)] >= 2
        /\ Status(JobOf(r)) \in {"queued", "running"}

(* ------------------------------- C7 ----------------------------------- *)
JobsCreatedFor(r) == {j \in 1..nextJobId : created[j] = messages(r)}

(* C7: every request has at most one job, and none before it is received;
   so there are never more jobs than received requests. *)
C7_OneJobPerRequest ==
    /\ \A r \in Requests :
          Cardinality(JobsCreatedFor(r)) <= (IF req[r].pc = "new" THEN 0 ELSE 1)
    /\ nextJobId <= Cardinality({r \in Requests : req[r].pc # "new"})

(* a request ended in a timeout, its one job is executed again by the
   worker, and another request failed *)
C7_Witness ==
    \E r1, r2 \in Requests :
        /\ IsTimeout(r1)
        /\ retry[JobOf(r1)] >= 2
        /\ IsExecutionFailed(r2)

(* ------------------------------- C8 ----------------------------------- *)
(* C8: every request that did not get a successful result is answered with
   status 500 and a detail message, the text of the exception; a success
   response is given only for a successful result. *)
C8_StructuredErrors ==
    \A r \in Requests :
        Done(r) =>
            /\ ~req[r].outcome.success =>
                  /\ req[r].resp.status = 500
                  /\ req[r].resp.key = "detail"
                  /\ req[r].resp.value = Str(req[r].outcome)
            /\ req[r].resp.key = "result" => req[r].outcome.success

(* one request failed at enqueue_job, another because its job failed *)
C8_Witness ==
    \E r1, r2 \in Requests :
        /\ Done(r1) /\ req[r1].outcome = ConnectionError
        /\ IsExecutionFailed(r2)

(* ------------------------------- C9 ----------------------------------- *)
(* C9: a job that was put back for another try is taken by a task only
   after every job that was waiting when it was put back. *)
C9_RequeuedAfterWaiting ==
    \A j \in JobIds : j \in inProgress => ahead[j] = {}

(* ------------------------------- C10 ---------------------------------- *)
(* C10: at most max_jobs jobs are running. *)
C10_RunningWithinLimit == Cardinality(Running) <= max_jobs

(* all slots are taken while a job waits in the queue *)
C10_Witness ==
    /\ wstate = "up"
    /\ Cardinality(Running) = max_jobs
    /\ Waiting # {}

(* ---------------------------------------------------------------------- *)
(* C11: a slot is released on every exit path of an attempt.  A slot is
   occupied only by a job that is running: as soon as the attempt has
   returned, raised, timed out or been cancelled the job's task is gone,
   so the number of occupied slots never exceeds the number of running
   jobs and all max_jobs slots are free when nothing runs. *)
C11_SlotReleased ==
    /\ \A j \in JobIds : tasks[j] # "none" => Status(j) = "running"
    /\ job_counter <= Cardinality(Running)
    /\ (Running = {} => job_counter = 0 /\ (max_jobs > 0 => slot_free))

(* after an attempt that raised and one that timed out, the worker is up
   with every slot free *)
C11_Witness ==
    /\ wstate = "up"
    /\ job_counter = 0
    /\ \E j, k \in JobIds :
          /\ result[j] # NoResult /\ result[j].type = "Exception"
          /\ Status(k) = "timed_out"

(* ---------------------------------------------------------------------- *)
(* C12 as stated: the attempt count of a job, the try counter that is
   incremented each time a slot picks the job up, is at most max_tries in
   every reachable state. *)
C12_TryCounterWithinMax == \A j \in JobIds : retry[j] <= max_tries

(* C12, amended: process_langchain_request is executed at most max_tries
   times per job.  An executing attempt has a try counter of at most
   max_tries; the counter is max_tries + 1 only in the pick-up that fails
   the job without executing it, and from there the job goes to failed
   and leaves the queue; an attempt with the counter at max_tries that
   raises or times out ends the job in a terminal state and removes it
   from the queue. *)
C12_ExecutionsWithinMax ==
    [][\A j \in JobIds :
          /\ tasks'[j] \in {"exec", "cancelled"} => retry'[j] \in 1..max_tries
          /\ retry'[j] <= max_tries + 1
          /\ retry'[j] = max_tries + 1 => tasks'[j] = "exceeded"
          /\ tasks[j] = "exceeded" =>
                \/ tasks'[j] = "exceeded" /\ result'[j] = NoResult
                \/ result'[j] = MaxRetriesExceeded /\ j \notin Range(queue')
          /\ (/\ tasks[j] = "exec" /\ retry[j] = max_tries
              /\ result'[j] # NoResult /\ ~result'[j].success) =>
                /\ Status(j)' \in {"failed", "timed_out"}
                /\ j \notin Range(queue')
                /\ tasks'[j] = "none"
    ]_vars

(* a job picked up for the try after the last: the counter is above
   max_tries and the function is not executed *)
C12_Witness ==
    \E j \in JobIds : tasks[j] = "exceeded" /\ retry[j] = max_tries + 1

(* ---------------------------------------------------------------------- *)
(* the jobs created so far, and the sum of the four counts of an observation *)
Created == 1..nextJobId
StatsSum(s) == s.enqueued + s.processing + s.completed + s.failed

(* C13: the four counts that an observation of the monitor returns sum to
   at most the number of jobs ever created, and an observation taken when
   every created job is in a terminal state returns a sum equal to that
   number. *)
C13_MonitorSum ==
    [][(get_queue_stats /\ stats' # StatsError) =>
          /\ StatsSum(stats') <= nextJobId
          /\ (\A j \in Created : Status(j) \in Terminal) => StatsSum(stats') = nextJobId
    ]_vars

(* ---------------------------------------------------------------------- *)
(* C14: each count that an observation returns is the number of jobs of its own
   category: enqueued the entries waiting in the queue, processing the
   running jobs, completed the succeeded jobs, failed the jobs that failed
   or timed out. *)
C14_MonitorCategories ==
    [][(get_queue_stats /\ stats' # StatsError) =>
          /\ stats'.enqueued = Cardinality(Waiting)
          /\ stats'.processing = Cardinality(Running)
          /\ stats'.completed = Cardinality({j \in Created : Status(j) = "succeeded"})
          /\ stats'.failed = Cardinality({j \in Created : Status(j) \in {"failed", "timed_out"}})
    ]_vars

(* ---------------------------------------------------------------------- *)
(* C15: the monitor is read-only.  A step in which the monitor obtains an
   observation leaves the queue, the requests and, for every job, its
   status, try counter, arguments and stored result or error as they
   were; so does every step of get_queue_stats. *)
C15_MonitorReadOnly ==
    [][(stats' # stats \/ get_queue_stats) =>
          /\ queue' = queue
          /\ req' = req
          /\ \A j \in JobIds :
                /\ Status(j)' = Status(j)
                /\ retry'[j] = retry[j]
                /\ result'[j] = result[j]
                /\ jobArgs'[j] = jobArgs[j]
                /\ tasks'[j] = tasks[j]
    ]_vars

(* the monitor has been called while a job was running and another was
   waiting behind it *)
C15_Witness ==
    /\ stats = StatsError
    /\ \E j, k \in JobIds : Status(j) = "running" /\ Status(k) = "queued"

(* ---------------------------------------------------------------------- *)
(* C16: the startup hook has run exactly once, and the shutdown hook not
   yet, whenever the worker is up or closing or holds a job; a job is
   picked up only by a worker whose startup hook has run; the shutdown
   hook runs once per lifecycle, and only when no job is in a slot. *)
C16_HooksOncePerLifecycle ==
    [][/\ wstate' \in {"up", "closing"} => startups' = 1 /\ shutdowns' = 0
       /\ wstate' = "down" => startups' = shutdowns'
       /\ startups' <= 1 /\ shutdowns' <= 1
       /\ \A j \in JobIds :
             /\ tasks'[j] # "none" => startups' = 1 /\ shutdowns' = 0
             /\ retry'[j] > retry[j] => wstate = "up" /\ startups = 1 /\ shutdowns = 0
       /\ shutdowns' # shutdowns =>
             \/ /\ shutdowns' = 1
                /\ wstate = "closing"
                /\ inProgress = {}
                /\ \A j \in JobIds : tasks[j] = "none"
             \/ shutdowns' = 0 /\ startups' = 1 /\ wstate = "down"
    ]_vars

(* the worker has shut down after a job it was running was cancelled and
   left its slot *)
C16_Witness ==
    /\ wstate = "down"
    /\ startups = 1
    /\ shutdowns = 1
    /\ \E j \in JobIds : Status(j) = "queued" /\ retry[j] >= 1

(* ---------------------------------------------------------------------- *)
(* C17: a job is owned by at most one slot and a slot by at most one job.
   A job has a task exactly while its in-progress key is set, and the
   tasks are never more than the slots; a job is picked up only while it
   is queued and no task owns it, so two attempts of a job never overlap;
   no update of a job's record is lost: each pick-up counts exactly one
   try and a stored result is never overwritten. *)
C17_SingleOwner ==
    [][/\ \A j \in JobIds :
             /\ tasks'[j] # "none" <=> j \in inProgress'
             /\ retry'[j] > retry[j] =>
                   /\ Status(j) = "queued"
                   /\ j \notin inProgress
                   /\ tasks[j] = "none"
                   /\ retry'[j] = retry[j] + 1
             /\ (j \in inProgress /\ j \in inProgress') =>
                   retry'[j] = retry[j] /\ result'[j] = NoResult
             /\ result[j] # NoResult => result'[j] = result[j]
       /\ Cardinality(inProgress') = job_counter'
       /\ job_counter' <= max_jobs
    ]_vars

(* two slots run two different jobs at the same time *)
C17_Witness ==
    \E j, k \in JobIds :
        /\ j # k
        /\ tasks[j] = "exec" /\ Status(j) = "running"
        /\ tasks[k] = "exec" /\ Status(k) = "running"

(* ---------------------------------------------------------------------- *)
(* C18: the dispatcher does not serialize requests.  Whatever the other
   requests are doing, the next request can be taken up and its job
   enqueued, and a waiting request whose job.result has an outcome can be
   answered at once; answering a request leaves every other request as it
   was. *)
C18_RequestsIndependent ==
    \A r \in Requests :
        /\ (req[r].pc = "new" /\ next_request(r) /\ nextJobId < MaxRequests)
              => ENABLED chat_enqueue(r)
        /\ (req[r].pc = "waiting" /\ job_result(req[r].job, req[r].delay) # Pending)
              => ENABLED chat_result(r)

(* a later request has been answered with the output of its job while an
   earlier request is still waiting for its own job, which is running *)
C18_Witness ==
    \E r, q \in Requests :
        /\ q < r
        /\ req[q].pc = "waiting"
        /\ Status(req[q].job) = "running"
        /\ job_result(req[q].job, req[q].delay) = Pending
        /\ Done(r)
        /\ req[r].outcome.success
        /\ req[r].job > req[q].job

(* ---------------------------------------------------------------------- *)
(* C19: every enqueued job eventually reaches a terminal state (succeeded,
   failed or timed_out), whatever its executor does and whether or not
   the caller that enqueued it has timed out. *)
C19_EveryJobTerminates ==
    \A j \in JobIds : (j \in Created) ~> (Status(j) \in Terminal)

(* a job has ended in a terminal state after its caller had timed out *)
C19_Witness ==
    \E r \in Requests :
        /\ Done(r)
        /\ req[r].outcome = TimeoutError
        /\ Status(req[r].job) \in {"failed", "timed_out"}

(* ---------------------------------------------------------------------- *)
(* C20: the wait of chat (30 s) is shorter than job_timeout (60 s).  When
   an attempt of a job runs into job_timeout, the request that enqueued
   the job has already been answered with the timeout of its own wait;
   and no request is answered while its job is timed_out, so no response
   is derived from that outcome. *)
C20_CallerTimeoutFirst ==
    [][\A r \in Requests : req[r].job # 0 =>
          /\ (Status(req[r].job) # "timed_out" /\ Status(req[r].job)' = "timed_out") =>
                /\ Done(r)
                /\ req[r].outcome = TimeoutError
                /\ req[r].resp = HTTPException(TimeoutError)
                /\ req'[r] = req[r]
          /\ (~Done(r) /\ Done(r)') => Status(req[r].job) # "timed_out"
    ]_vars

(* an attempt has run into job_timeout after its request was answered
   with the timeout of the wait *)
C20_Witness ==
    \E r \in Requests :
        /\ Done(r)
        /\ req[r].outcome = TimeoutError
        /\ req[r].job # 0
        /\ Status(req[r].job) = "timed_out"

(* ---------------------------------------------------------------------- *)
(* C21: for every total_requests >= 0 and concurrency >= 1, run_load_test
   sends each of the request ids 1..total_requests once and no other, so
   exactly total_requests requests when it completes; never more than
   concurrency requests are in flight, and a batch is sent only when no
   request of an earlier batch is in flight; and run_load_test completes,
   whichever requests fail. *)
C21_LoadTestCompletes ==
    /\ [][/\ Cardinality(InFlight') <= load'.concurrency
          /\ load'.sent = Cardinality({id \in RequestIds : load'.state[id] # "none"})
          /\ load'.sent <= load'.total_requests
          /\ \A id \in RequestIds :
                /\ load'.state[id] # "none" => id <= load'.total_requests
                /\ load.state[id] # "none" =>
                      \/ load'.state[id] = load.state[id]
                      \/ load.state[id] = "sent" /\ load'.state[id] \in {"result", "error"}
                /\ (load.state[id] = "none" /\ load'.state[id] = "sent") => InFlight = {}
          /\ load'.pc = "completed" =>
                /\ load'.sent = load'.total_requests
                /\ InFlight' = {}
                /\ load'.tasks = <<>>
       ]_vars
    /\ <>(load.pc = "completed")

(* a load test of two batches has completed although a request of each
   batch failed *)
C21_Witness ==
    /\ load.pc = "completed"
    /\ load.concurrency = 2
    /\ load.total_requests >= 3
    /\ load.state[1] = "error"
    /\ load.state[3] = "error"
    /\ load.state[2] = "result"

====
